---- MODULE Spec2Model ----
(***************************************************************************)
(* Model of soltravelhelper: the ephemeris distance query, the two         *)
(* kinematics estimators, velocity_after_time and the Traveler log.        *)
(*                                                                         *)
(* Numbers.  A datetime is [days, seconds, microseconds] with days the     *)
(* proleptic ordinal, a timedelta is the same triple normalised as         *)
(* datetime.timedelta normalises it (0 <= seconds < 86400,                 *)
(* 0 <= microseconds < 10^6, the sign carried by days).  Lengths are       *)
(* integers: provider units (km) for position vectors, metres for          *)
(* distance.  Floating point quotients are exact rationals rounded where   *)
(* the code rounds them (the timedelta constructor, to the microsecond,    *)
(* half to even); the square root is taken at a resolution of 1/100 s.     *)
(***************************************************************************)
EXTENDS Integers, Sequences, FiniteSets, TLC

VARIABLES current_position, date, log, clock, start, journal, ret

vars == <<current_position, date, log, clock, start, journal, ret>>

(* ---------------------------------------------------------------- bounds *)
MaxCalls == 2

(* ------------------------------------------------- datetime / timedelta  *)
MicrosPerSecond == 1000000
SecondsPerDay == 86400
SecondsPerHour == 3600
MinOrdinal == 1
MaxOrdinal == 3652059

Triple(d, s, u) == [days |-> d, seconds |-> s, microseconds |-> u]

\* "date=None": no datetime has ordinal 0, so the triple stands for None.
NoDate == Triple(0, 0, 0)

\* Carry microseconds into seconds and seconds into days (floor division,
\* as divmod does), which is how timedelta.__new__ normalises its fields.
Normalize(d, s, u) ==
    LET s1 == s + (u \div MicrosPerSecond)
        u1 == u % MicrosPerSecond
    IN  Triple(d + (s1 \div SecondsPerDay), s1 % SecondsPerDay, u1)

timedelta_add(x, y) ==
    Normalize(x.days + y.days, x.seconds + y.seconds,
              x.microseconds + y.microseconds)

timedelta_neg(x) == Normalize(-x.days, -x.seconds, -x.microseconds)

ZeroDelta == Triple(0, 0, 0)

\* x >= timedelta(0): the sign of a normalised timedelta is the sign of days.
NonNegative(x) == x.days >= 0

\* d1 <= d2 on datetimes (field-wise lexicographic, as datetime compares).
DateLE(a, b) ==
    \/ a.days < b.days
    \/ a.days = b.days /\ a.seconds < b.seconds
    \/ a.days = b.days /\ a.seconds = b.seconds
                       /\ a.microseconds <= b.microseconds

Ok(v) == [ok |-> TRUE, val |-> v, err |-> "none"]
Raise(e) == [ok |-> FALSE, val |-> ZeroDelta, err |-> e]

\* datetime + timedelta: OverflowError when the ordinal leaves 1..3652059.
datetime_add(t, delta) ==
    LET r == Normalize(t.days + delta.days, t.seconds + delta.seconds,
                       t.microseconds + delta.microseconds)
    IN  IF r.days >= MinOrdinal /\ r.days <= MaxOrdinal
        THEN Ok(r) ELSE Raise("OverflowError")

\* round(n / m) for n >= 0, m > 0, ties to the even neighbour.
RoundHalfEven(n, m) ==
    LET q == n \div m
        r == n % m
    IN  IF 2 * r < m THEN q
        ELSE IF 2 * r > m THEN q + 1
        ELSE IF q % 2 = 0 THEN q ELSE q + 1

\* dt.timedelta(seconds=n/m) for n >= 0, m > 0: whole seconds plus the
\* fraction rounded to microseconds.
timedelta_seconds(n, m) ==
    Normalize(0, n \div m, RoundHalfEven((n % m) * MicrosPerSecond, m))

\* dt.timedelta(hours=h) for an integer h.
timedelta_hours(h) == Normalize(0, h * SecondsPerHour, 0)

\* timedelta.total_seconds(), in microseconds (the model's fixed point for a
\* number of seconds).
total_seconds(td) ==
    (td.days * SecondsPerDay + td.seconds) * MicrosPerSecond + td.microseconds

\* strftime('%Y-%m-%d at %H:%M:%S'): the calendar day and the time of day to
\* the second; the microseconds are dropped.
strftime(t) ==
    [day |-> t.days,
     H |-> t.seconds \div SecondsPerHour,
     M |-> (t.seconds % SecondsPerHour) \div 60,
     S |-> t.seconds % 60]

(* --------------------------------------------------- ephemeris provider  *)
KnownBodies == {"earth", "mars", "jupiter"}
Bodies == KnownBodies \cup {"vulcan"}

\* The instants the provider has data for (the years 1800 to 2199); a
\* query outside them is refused.
InEphemerisRange(t) == t.days >= 657072 /\ t.days <= 803169

\* Hour counter that drives the bodies along their tracks.
Phase(t) == (t.days * 24 + (t.seconds \div SecondsPerHour)) % 5

\* ac.get_body_barycentric(body, time): position vector in provider units.
get_body_barycentric(body, t) ==
    LET k == Phase(t) IN
    CASE body = "earth"   -> << 3 + k,        4,       0 >>
      [] body = "mars"    -> << 0 - 6,        8 + 2*k, 1 >>
      [] body = "jupiter" -> << 20 - 3*k, 0 - 15,      2 + k >>
      [] OTHER            -> << 0, 0, 0 >>

VecSub(a, b) == << a[1] - b[1], a[2] - b[2], a[3] - b[3] >>

RECURSIVE ISqrtIn(_, _, _)
ISqrtIn(x, lo, hi) ==
    IF lo >= hi THEN lo
    ELSE LET mid == (lo + hi + 1) \div 2
         IN  IF mid * mid <= x THEN ISqrtIn(x, mid, hi)
                               ELSE ISqrtIn(x, lo, mid - 1)

\* floor(sqrt(x)) for 0 <= x < 2^31.
ISqrt(x) == ISqrtIn(x, 0, 46340)

\* Variant of Norm: the components are added without being squared.
Norm_signed(v) == v[1] + v[2] + v[3]

\* CartesianRepresentation.norm(), in provider units.
Norm(v) == ISqrt(v[1] * v[1] + v[2] * v[2] + v[3] * v[3])

MetresPerUnit == 1000

\* Quantity.to(au.m).value
to_m(x) == x * MetresPerUnit

(* ------------------------------------------------------ pure functions  *)
\* distance(position, destination, date): metres between the two bodies at
\* the instant, or the provider's error.  now is the reading dt.datetime.now()
\* returns when date is None.
distance(position, destination, t, now) ==
    LET time == IF t = NoDate THEN now ELSE t
    IN  IF position \notin KnownBodies THEN Raise("KeyError")
        ELSE IF ~InEphemerisRange(time) THEN Raise("EphemerisRangeError")
        ELSE IF destination \notin KnownBodies THEN Raise("KeyError")
        ELSE Ok(to_m(Norm(VecSub(get_body_barycentric(position, time),
                                 get_body_barycentric(destination, time)))))

\* Variant of time_constant_velocity: a non-positive velocity is rejected.
time_constant_velocity_guarded(position, destination, velocity, t, now) ==
    LET d == distance(position, destination, t, now)
    IN  IF ~d.ok THEN d
        ELSE IF velocity <= 0 THEN Raise("ValueError")
        ELSE Ok(timedelta_seconds(d.val, velocity))

\* Variant of time_constant_velocity: the quotient is velocity / d.
time_constant_velocity_inverted(position, destination, velocity, t, now) ==
    LET d == distance(position, destination, t, now)
    IN  IF ~d.ok THEN d
        ELSE IF velocity = 0
             THEN IF d.val = 0 THEN Raise("ValueError")
                               ELSE Raise("OverflowError")
        ELSE IF d.val = 0 THEN Raise("ZeroDivisionError")
        ELSE IF velocity > 0 THEN Ok(timedelta_seconds(velocity, d.val))
        ELSE Ok(timedelta_neg(timedelta_seconds(-velocity, d.val)))

\* dt.timedelta(seconds=d / velocity).  d / 0 is inf (nan for d = 0), which
\* the timedelta constructor refuses.
time_constant_velocity(position, destination, velocity, t, now) ==
    LET d == distance(position, destination, t, now)
    IN  IF ~d.ok THEN d
        ELSE IF velocity = 0
             THEN IF d.val = 0 THEN Raise("ValueError")
                               ELSE Raise("OverflowError")
        ELSE IF velocity > 0 THEN Ok(timedelta_seconds(d.val, velocity))
        ELSE Ok(timedelta_neg(timedelta_seconds(d.val, -velocity)))

\* dt.timedelta(seconds=2 * (d / acceleration) ** 0.5).  The root of a
\* negative quotient is not a real number and the root of inf is inf; the
\* timedelta constructor refuses both.  (-0.0) ** 0.5 is 0.0.
time_constant_acceleration(position, destination, acceleration, t, now) ==
    LET d == distance(position, destination, t, now)
    IN  IF ~d.ok THEN d
        ELSE IF acceleration = 0
             THEN IF d.val = 0 THEN Raise("ValueError")
                               ELSE Raise("OverflowError")
        ELSE IF acceleration < 0
             THEN IF d.val = 0 THEN Ok(ZeroDelta) ELSE Raise("ValueError")
        ELSE Ok(timedelta_seconds(2 * ISqrt((d.val * 10000) \div acceleration),
                                  100))

\* A time argument is a number of seconds (num, in microseconds) or a
\* dt.timedelta (td); kind tells which.
Seconds(n) == [kind |-> "seconds", num |-> n, td |-> ZeroDelta]
Delta(x) == [kind |-> "timedelta", num |-> 0, td |-> x]

\* Variant of velocity_after_time: reads the days and seconds fields of the
\* timedelta and leaves out its microseconds.
velocity_after_time_fields(acceleration, time) ==
    LET secs == IF time.kind = "timedelta"
                THEN (time.td.days * SecondsPerDay + time.td.seconds)
                     * MicrosPerSecond
                ELSE time.num
    IN  acceleration * secs

\* velocity_after_time(acceleration, time), in 10^-6 m/s.
velocity_after_time(acceleration, time) ==
    LET secs == IF time.kind = "timedelta" THEN total_seconds(time.td)
                                           ELSE time.num
    IN  acceleration * secs

(* ------------------------------------------------------------ inputs     *)
StartPositions == {"earth", "mars"}
StartDates == {Triple(737425, 43200, 0), Triple(MaxOrdinal, 86399, 999999)}
ClockValues == {Triple(738000, 3600, 500000)}
Velocities == {-500, 0, 7}
Accelerations == {-2, 0, 3}
Hours == {-24, 0, 30}
Instants == StartDates \cup {NoDate, Triple(737425, 50400, 250000)}
Durations == {Triple(0, 90, 500000), Triple(0, 0, 1), Triple(-1, 86398, 0),
              ZeroDelta}

NoCall == [fn |-> "none", a |-> "", b |-> "", param |-> 0, t |-> NoDate,
           time |-> Seconds(0), res |-> Ok(ZeroDelta), num |-> 0]

(* ------------------------------------------------------------ Traveler   *)
Entry(msg, position, t) == [msg |-> msg, position |-> position,
                            when |-> strftime(t)]

\* Traveler(position, d): __init__ stores both fields and logs the start.
Init ==
    \E position \in StartPositions, d \in StartDates \cup {NoDate},
       now \in ClockValues :
        LET d0 == IF d = NoDate THEN now ELSE d IN
        /\ clock = now
        /\ date = d0
        /\ current_position = position
        /\ log = << Entry("Started journey on", position, d0) >>
        /\ start = [position |-> position, date |-> d0]
        /\ journal = << >>
        /\ ret = NoCall

Call(op, destination, param, r) ==
    [op |-> op, destination |-> destination, param |-> param,
     pre_position |-> current_position, pre_date |-> date,
     pre_log |-> Len(log), ok |-> r.ok, err |-> r.err]

\* Variant of idle_hours: the sum is computed and dropped (+ for +=).
idle_hours_dropped(hours) ==
    LET sum == datetime_add(date, timedelta_hours(hours)) IN
    /\ Len(journal) < MaxCalls
    /\ journal' = Append(journal, Call("idle_hours", current_position, hours, sum))
    /\ IF sum.ok
       THEN log' = Append(log, Entry("Idled on", current_position, date))
       ELSE UNCHANGED log
    /\ UNCHANGED <<date, current_position, clock, start, ret>>

\* Variant of idle_hours: the idle time is subtracted (-= for +=).
idle_hours_backwards(hours) ==
    LET sum == datetime_add(date, timedelta_neg(timedelta_hours(hours))) IN
    /\ Len(journal) < MaxCalls
    /\ journal' = Append(journal, Call("idle_hours", current_position, hours, sum))
    /\ IF sum.ok
       THEN /\ date' = sum.val
            /\ log' = Append(log, Entry("Idled on", current_position, sum.val))
       ELSE UNCHANGED <<date, log>>
    /\ UNCHANGED <<current_position, clock, start, ret>>

\* self.date += timedelta(hours=hours); log.  An overflowing addition raises
\* before anything is assigned.
idle_hours(hours) ==
    LET sum == datetime_add(date, timedelta_hours(hours)) IN
    /\ Len(journal) < MaxCalls
    /\ journal' = Append(journal, Call("idle_hours", current_position, hours, sum))
    /\ IF sum.ok
       THEN /\ date' = sum.val
            /\ log' = Append(log, Entry("Idled on", current_position, sum.val))
       ELSE UNCHANGED <<date, log>>
    /\ UNCHANGED <<current_position, clock, start, ret>>

\* Variant of Travel: current_position is never assigned.
Travel_keeps_position(op, destination, param, duration) ==
    LET sum == IF duration.ok THEN datetime_add(date, duration.val)
                              ELSE duration IN
    /\ Len(journal) < MaxCalls
    /\ journal' = Append(journal, Call(op, destination, param, sum))
    /\ IF sum.ok
       THEN /\ date' = sum.val
            /\ log' = Append(log, Entry("Arrived on", current_position, sum.val))
       ELSE UNCHANGED <<date, log>>
    /\ UNCHANGED <<current_position, clock, start, ret>>

\* Variant of Travel: the entry is logged before current_position is assigned.
Travel_logs_first(op, destination, param, duration) ==
    LET sum == IF duration.ok THEN datetime_add(date, duration.val)
                              ELSE duration IN
    /\ Len(journal) < MaxCalls
    /\ journal' = Append(journal, Call(op, destination, param, sum))
    /\ IF sum.ok
       THEN /\ date' = sum.val
            /\ current_position' = destination
            /\ log' = Append(log, Entry("Arrived on", current_position, sum.val))
       ELSE UNCHANGED <<date, current_position, log>>
    /\ UNCHANGED <<clock, start, ret>>

\* Variant of Travel: current_position is assigned before the duration is
\* computed, so a failing estimate leaves the new position behind.
Travel_position_first(op, destination, param, duration) ==
    LET sum == IF duration.ok THEN datetime_add(date, duration.val)
                              ELSE duration IN
    /\ Len(journal) < MaxCalls
    /\ journal' = Append(journal, Call(op, destination, param, sum))
    /\ current_position' = destination
    /\ IF sum.ok
       THEN /\ date' = sum.val
            /\ log' = Append(log, Entry("Arrived on", destination, sum.val))
       ELSE UNCHANGED <<date, log>>
    /\ UNCHANGED <<clock, start, ret>>

\* The body shared by the two travel methods: self.date += duration;
\* self.current_position = destination; log.  duration is the estimator's
\* result; when it or the addition raises, nothing has been assigned.
Travel(op, destination, param, duration) ==
    LET sum == IF duration.ok THEN datetime_add(date, duration.val)
                              ELSE duration IN
    /\ Len(journal) < MaxCalls
    /\ journal' = Append(journal, Call(op, destination, param, sum))
    /\ IF sum.ok
       THEN /\ date' = sum.val
            /\ current_position' = destination
            /\ log' = Append(log, Entry("Arrived on", destination, sum.val))
       ELSE UNCHANGED <<date, current_position, log>>
    /\ UNCHANGED <<clock, start, ret>>

\* Variant of travel_constant_acceleration: the date is not passed on, so the
\* estimate is made for the clock's reading.
travel_constant_acceleration_now(destination, acceleration) ==
    Travel("travel_constant_acceleration", destination, acceleration,
           time_constant_acceleration(current_position, destination,
                                      acceleration, NoDate, clock))

travel_constant_acceleration(destination, acceleration) ==
    Travel("travel_constant_acceleration", destination, acceleration,
           time_constant_acceleration(current_position, destination,
                                      acceleration, date, clock))

travel_constant_velocity(destination, velocity) ==
    Travel("travel_constant_velocity", destination, velocity,
           time_constant_velocity(current_position, destination,
                                  velocity, date, clock))

Next ==
    \/ \E hours \in Hours : idle_hours(hours)
    \/ \E destination \in Bodies, acceleration \in Accelerations :
          travel_constant_acceleration(destination, acceleration)
    \/ \E destination \in Bodies, velocity \in Velocities :
          travel_constant_velocity(destination, velocity)

Spec == Init /\ [][Next]_vars

(* ------------------------------------------- calls of the pure functions *)
CallDistance(a, b, t) ==
    /\ ret' = [NoCall EXCEPT !.fn = "distance", !.a = a, !.b = b, !.t = t,
                             !.res = distance(a, b, t, clock)]
    /\ UNCHANGED <<current_position, date, log, clock, start, journal>>

CallTimeConstantVelocity(a, b, v, t) ==
    /\ ret' = [NoCall EXCEPT !.fn = "time_constant_velocity", !.a = a, !.b = b,
                             !.param = v, !.t = t,
                             !.res = time_constant_velocity(a, b, v, t, clock)]
    /\ UNCHANGED <<current_position, date, log, clock, start, journal>>

CallTimeConstantAcceleration(a, b, acc, t) ==
    /\ ret' = [NoCall EXCEPT !.fn = "time_constant_acceleration", !.a = a,
                             !.b = b, !.param = acc, !.t = t,
                             !.res = time_constant_acceleration(a, b, acc, t, clock)]
    /\ UNCHANGED <<current_position, date, log, clock, start, journal>>

CallVelocityAfterTime(acc, time) ==
    /\ ret' = [NoCall EXCEPT !.fn = "velocity_after_time", !.param = acc,
                             !.time = time,
                             !.num = velocity_after_time(acc, time)]
    /\ UNCHANGED <<current_position, date, log, clock, start, journal>>

Times == {Delta(x) : x \in Durations} \cup
         {Seconds(total_seconds(x)) : x \in Durations} \cup {Seconds(2500000)}

NextFn ==
    \/ \E a \in Bodies, b \in Bodies, t \in Instants : CallDistance(a, b, t)
    \/ \E a \in Bodies, b \in Bodies, v \in Velocities, t \in Instants :
          CallTimeConstantVelocity(a, b, v, t)
    \/ \E a \in Bodies, b \in Bodies, acc \in Accelerations, t \in Instants :
          CallTimeConstantAcceleration(a, b, acc, t)
    \/ \E acc \in Accelerations, time \in Times : CallVelocityAfterTime(acc, time)

SpecFn == Init /\ [][NextFn]_vars

(* ------------------------------------------------ reading the journal   *)
Calls == 1..Len(journal)

IsTravel(c) == c.op \in {"travel_constant_acceleration", "travel_constant_velocity"}

\* The Traveler as call i left it: what call i + 1 found, or the present.
DateAfter(i) == IF i < Len(journal) THEN journal[i + 1].pre_date ELSE date
PositionAfter(i) ==
    IF i < Len(journal) THEN journal[i + 1].pre_position ELSE current_position
LogLenAfter(i) == IF i < Len(journal) THEN journal[i + 1].pre_log ELSE Len(log)

\* The estimator's answer for the leg of call c, from the arguments of the
\* call and the Traveler's fields when it was made.
Estimate(c) ==
    IF c.op = "travel_constant_acceleration"
    THEN time_constant_acceleration(c.pre_position, c.destination, c.param,
                                    c.pre_date, clock)
    ELSE time_constant_velocity(c.pre_position, c.destination, c.param,
                                c.pre_date, clock)

\* The duration call c added to date: the idle time, or the leg's estimate.
DurationOf(c) ==
    IF c.op = "idle_hours" THEN timedelta_hours(c.param) ELSE Estimate(c).val

RECURSIVE SumDurations(_)
SumDurations(n) ==
    IF n = 0 THEN ZeroDelta
    ELSE IF journal[n].ok
         THEN timedelta_add(SumDurations(n - 1), DurationOf(journal[n]))
         ELSE SumDurations(n - 1)

RECURSIVE LastDestination(_)
LastDestination(n) ==
    IF n = 0 THEN start.position
    ELSE IF journal[n].ok /\ IsTravel(journal[n]) THEN journal[n].destination
    ELSE LastDestination(n - 1)

RECURSIVE Completed(_)
Completed(n) ==
    IF n = 0 THEN 0 ELSE Completed(n - 1) + (IF journal[n].ok THEN 1 ELSE 0)

Message(c) == IF c.op = "idle_hours" THEN "Idled on" ELSE "Arrived on"

(* ---------------------------------------------------------------- claims *)
\* C1: after any sequence of calls, date is the constructor's date plus the
\* sum, in call order, of the idle and travel durations of the completed calls.
C1_DateIsStartPlusSum ==
    datetime_add(start.date, SumDurations(Len(journal))) = Ok(date)

C1_Witness ==
    /\ Len(journal) = 2
    /\ journal[1].op = "travel_constant_velocity" /\ journal[1].ok
    /\ journal[2].op = "idle_hours" /\ journal[2].ok /\ journal[2].param = 30
    /\ date.microseconds # 0

\* C2: current_position is the destination of the last completed travel call,
\* or the constructor's position when there is none, and an idle_hours call
\* leaves current_position as it found it.
C2_PositionIsLastDestination ==
    /\ current_position = LastDestination(Len(journal))
    /\ \A i \in Calls : journal[i].op = "idle_hours"
                        => PositionAfter(i) = journal[i].pre_position

C2_Witness ==
    /\ Len(journal) = 2
    /\ IsTravel(journal[1]) /\ journal[1].ok
    /\ journal[1].destination # start.position
    /\ journal[2].op = "idle_hours" /\ journal[2].ok
    /\ current_position = journal[1].destination

ProviderAccepts == distance(ret.a, ret.b, ret.t, clock).ok

C5_DistanceSymmetric ==
    (ret.fn = "distance" /\ ret.a \in KnownBodies /\ ret.b \in KnownBodies)
    => ret.res = distance(ret.b, ret.a, ret.t, clock)

C5_Witness ==
    /\ ret.fn = "distance" /\ ret.a = "mars" /\ ret.b = "jupiter"
    /\ ret.res.ok /\ ret.res.val > 0

\* C6: for velocity v > 0 the duration time_constant_velocity returns is
\* distance(a, b, t) / v seconds, to the microsecond a duration resolves:
\* it differs from the quotient by at most half a microsecond.
C6_VelocityDurationIsQuotient ==
    (ret.fn = "time_constant_velocity" /\ ret.param > 0 /\ ProviderAccepts)
    => /\ ret.res.ok
       /\ LET d == distance(ret.a, ret.b, ret.t, clock).val
              v == ret.param
              whole == ret.res.val.days * SecondsPerDay + ret.res.val.seconds
              rest == (d - whole * v) * MicrosPerSecond
              diff == ret.res.val.microseconds * v - rest
          IN  2 * diff <= v /\ 2 * (0 - diff) <= v

C6_Witness ==
    /\ ret.fn = "time_constant_velocity" /\ ret.param > 0
    /\ ret.res.ok /\ ret.res.val.seconds > 0 /\ ret.res.val.microseconds # 0

\* C7: velocity_after_time(acc, time) is acc times the time in seconds, and a
\* duration gives the result its number of seconds gives.
C7_VelocityAfterTime ==
    ret.fn = "velocity_after_time"
    => /\ ret.time.kind = "seconds" => ret.num = ret.param * ret.time.num
       /\ ret.time.kind = "timedelta"
          => /\ ret.num = ret.param * total_seconds(ret.time.td)
             /\ ret.num = velocity_after_time(
                              ret.param, Seconds(total_seconds(ret.time.td)))

C7_Witness ==
    /\ ret.fn = "velocity_after_time" /\ ret.time.kind = "timedelta"
    /\ ret.time.td.days < 0 /\ ret.num > 0

\* C8: a completed travel call ends with date equal to the date it started
\* from plus the estimate for the position and date it started from, and with
\* current_position the destination; the leg after a completed travel starts
\* from that destination and arrival date.
C8_LegUsesStateAtItsStart ==
    \A i \in Calls :
        (IsTravel(journal[i]) /\ journal[i].ok)
        => /\ Estimate(journal[i]).ok
           /\ Ok(DateAfter(i)) = datetime_add(journal[i].pre_date,
                                              Estimate(journal[i]).val)
           /\ PositionAfter(i) = journal[i].destination
           /\ i < Len(journal)
              => /\ journal[i + 1].pre_position = journal[i].destination
                 /\ Ok(journal[i + 1].pre_date)
                      = datetime_add(journal[i].pre_date,
                                     Estimate(journal[i]).val)

C8_Witness ==
    /\ Len(journal) = 2 /\ start.position = "earth"
    /\ journal[1].op = "travel_constant_velocity" /\ journal[1].ok
    /\ journal[1].destination = "mars"
    /\ journal[2].op = "travel_constant_acceleration" /\ journal[2].ok
    /\ journal[2].destination = "jupiter" /\ journal[2].param > 0
    /\ current_position = "jupiter"

\* C9: the log holds one entry for construction and one for each completed
\* call, in call order, and each entry carries current_position and the
\* formatted date as the operation left them.
C9_OneEntryPerOperation ==
    /\ Len(log) = Completed(Len(journal)) + 1
    /\ log[1] = Entry("Started journey on", start.position, start.date)
    /\ \A i \in Calls :
          journal[i].ok
          => /\ LogLenAfter(i) = journal[i].pre_log + 1
             /\ log[LogLenAfter(i)] = Entry(Message(journal[i]),
                                            PositionAfter(i), DateAfter(i))

C9_Witness ==
    /\ Len(journal) = 2 /\ Len(log) = 3
    /\ journal[1].op = "idle_hours" /\ IsTravel(journal[2])
    /\ log[3].position # log[2].position
    /\ log[3].when # log[2].when

\* C10: a travel call whose estimate fails reports that error and leaves date,
\* current_position and the log as they were.
C10_FailedTravelChangesNothing ==
    \A i \in Calls :
        (IsTravel(journal[i]) /\ ~Estimate(journal[i]).ok)
        => /\ ~journal[i].ok
           /\ journal[i].err = Estimate(journal[i]).err
           /\ DateAfter(i) = journal[i].pre_date
           /\ PositionAfter(i) = journal[i].pre_position
           /\ LogLenAfter(i) = journal[i].pre_log

C10_Witness ==
    /\ Len(journal) = 2
    /\ IsTravel(journal[1]) /\ journal[1].ok
    /\ IsTravel(journal[2]) /\ journal[2].err = "KeyError"
    /\ journal[2].destination # current_position

====
